---- MODULE Spec2Model ----
(***************************************************************************)
(* Model of ml_metadata/query/filter_query_builder.cc:                     *)
(* FilterQueryBuilder<T> translates the column references of a resolved    *)
(* filter predicate into SQL text (VisitResolvedExpressionColumn), keeps   *)
(* the table aliases of the mentioned neighbourhood concepts               *)
(* (mentioned_alias_, alias_index_, GetTableAlias) and renders the FROM    *)
(* clause with one join per alias (GetFromClause).                         *)
(*                                                                         *)
(* Text is modelled as a sequence of one-character strings, so prefix      *)
(* tests, substr and concatenation are computed as the code computes them. *)
(* A join template is a record of the SQL identifiers its text contains;   *)
(* the FROM clause is the sequence of the non-empty pieces appended to it. *)
(***************************************************************************)
EXTENDS Integers, Sequences, FiniteSets, TLC

\* ------------------------------------------------------------------ bounds
\* number of column references one builder translates
MaxRefs == 3
\* number of column references each of the two builders of SpecPair translates
MaxPairRefs == 2

\* ------------------------------------------------------------------- text
StrCat(a, b) == a \o b

StartsWith(text, prefix) ==
  /\ Len(text) >= Len(prefix)
  /\ SubSeq(text, 1, Len(prefix)) = prefix

\* std::string::substr(pos), pos counted from 0
Substr(text, pos) == SubSeq(text, pos + 1, Len(text))

Digit(d) ==
  CASE d = 0 -> "0" [] d = 1 -> "1" [] d = 2 -> "2" [] d = 3 -> "3"
    [] d = 4 -> "4" [] d = 5 -> "5" [] d = 6 -> "6" [] d = 7 -> "7"
    [] d = 8 -> "8" [] d = 9 -> "9"

RECURSIVE Itoa(_)
\* decimal rendering of a non-negative int, as absl::StrCat renders it
Itoa(n) == IF n < 10 THEN <<Digit(n)>> ELSE Itoa(n \div 10) \o <<Digit(n % 10)>>

LowerCase == {"a","b","c","d","e","f","g","h","i","j","k","l","m",
              "n","o","p","q","r","s","t","u","v","w","x","y","z"}
Digits == {"0","1","2","3","4","5","6","7","8","9"}
IdentifierChars == LowerCase \cup Digits \cup {"_"}

\* a few of the reserved keywords of the SQL dialect
ReservedKeywords ==
  { <<"a","s">>, <<"b","y">>, <<"i","n">>, <<"i","s">>, <<"o","n">>,
    <<"o","r">>, <<"t","o">>, <<"a","l","l">>, <<"a","n","d">>,
    <<"f","r","o","m">> }

\* the backquote character (a TLA+ string literal cannot hold it)
Backquote == "BQ"

\* zetasql::ToIdentifierLiteral: a text that is a valid unreserved identifier
\* is returned as it is, any other text is quoted in backquotes.
ToIdentifierLiteral(text) ==
  IF /\ Len(text) > 0
     /\ \A i \in 1..Len(text) : text[i] \in IdentifierChars
     /\ text[1] \notin Digits
     /\ text \notin ReservedKeywords
  THEN text
  ELSE <<Backquote>> \o text \o <<Backquote>>

\* -------------------------------------------------------------- constants
kTableAliasPrefix == <<"t","a","b","l","e","_">>
kBaseTableRef == << >>
kTypeTableRef == <<"t","y","p","e">>
kBaseTableAlias == <<"t","a","b","l","e","_","0">>
\* value of alias_index_ in a newly constructed builder
kInitialAliasIndex == 0

kContextsPrefix == <<"c","o","n","t","e","x","t","s","_">>
kPropertyPrefix == <<"p","r","o","p","e","r","t","i","e","s","_">>
kCustomPropertyPrefix == <<"c","u","s","t","o","m","_">> \o kPropertyPrefix
kParentContextsPrefix == <<"p","a","r","e","n","t","_">> \o kContextsPrefix
kChildContextsPrefix == <<"c","h","i","l","d","_">> \o kContextsPrefix
kEventsPrefix == <<"e","v","e","n","t","s","_">>

RecordKind == {"Artifact", "Execution", "Context"}

AtomType == {"ATTRIBUTE", "CONTEXT", "PROPERTY", "CUSTOM_PROPERTY",
             "PARENT_CONTEXT", "CHILD_CONTEXT", "EVENT"}

\* -------------------------------------------------------- join templates
\* A template is described by the SQL identifiers of its text:
\*   from      the table the joined rows are read from
\*   via       the edge table joined to it inside the derived table ("" if none)
\*   via_on    the column of the edge table equated with the neighbour's
\*             Context.id
\*   base_col  the column of the joined rows that carries the base record's id
\*   on_left   the column of the base table $0 in the ON condition
\*   on_right  the column of the joined table $1 in the ON condition
\*   where     the filter of the derived table
Template(name, from, via, via_on, base_col, on_left, on_right, where) ==
  [ name |-> name, from |-> from, via |-> via, via_on |-> via_on,
    base_col |-> base_col, on_left |-> on_left, on_right |-> on_right,
    where |-> where ]

\* the empty text ""
kEmptyTemplate == Template("", "", "", "", "", "", "", "")

kTypeJoinTable ==
  Template("kTypeJoinTable", "Type", "", "", "Type.id",
           "type_id", "type_id", "Type.type_kind = $2")

kContextJoinTableViaAttribution ==
  Template("kContextJoinTableViaAttribution", "Context", "Attribution",
           "Attribution.context_id", "Attribution.artifact_id",
           "id", "artifact_id", "")

kContextJoinTableViaAssociation ==
  Template("kContextJoinTableViaAssociation", "Context", "Association",
           "Association.context_id", "Association.execution_id",
           "id", "execution_id", "")

kParentContextJoinTableViaParentContext ==
  Template("kParentContextJoinTableViaParentContext", "Context",
           "ParentContext", "ParentContext.parent_context_id",
           "ParentContext.context_id", "id", "child_context_id", "")

kChildContextJoinTableViaParentContext ==
  Template("kChildContextJoinTableViaParentContext", "Context",
           "ParentContext", "ParentContext.context_id",
           "ParentContext.parent_context_id", "id", "parent_context_id", "")

kArtifactPropertyJoinTable ==
  Template("kArtifactPropertyJoinTable", "ArtifactProperty", "", "",
           "artifact_id", "id", "artifact_id",
           "name = \"$2\" AND is_custom_property = $3")

kExecutionPropertyJoinTable ==
  Template("kExecutionPropertyJoinTable", "ExecutionProperty", "", "",
           "execution_id", "id", "execution_id",
           "name = \"$2\" AND is_custom_property = $3")

kContextPropertyJoinTable ==
  Template("kContextPropertyJoinTable", "ContextProperty", "", "",
           "context_id", "id", "context_id",
           "name = \"$2\" AND is_custom_property = $3")

kArtifactEventJoinTable ==
  Template("kArtifactEventJoinTable", "Event", "", "",
           "artifact_id", "id", "artifact_id", "")

kExecutionEventJoinTable ==
  Template("kExecutionEventJoinTable", "Event", "", "",
           "execution_id", "id", "execution_id", "")

\* "Artifact AS $0 ", "Execution AS $0 ", "Context AS $0 "
BaseNodeTemplate(R) == Template("BaseNodeTable", R, "", "", "", "", "", "")

\* absl::Substitute(format, args...): the format with $0..$3 replaced by the
\* arguments; the empty format gives the empty text whatever the arguments.
Substitute(format, args) ==
  IF format = kEmptyTemplate
  THEN [format |-> kEmptyTemplate, args |-> << >>]
  ELSE [format |-> format, args |-> args]

kEmptyText == Substitute(kEmptyTemplate, << >>)

\* absl::StrAppend(&result, piece): appending the empty text adds nothing
StrAppend(result, piece) ==
  IF piece = kEmptyText THEN result ELSE Append(result, piece)

\* rendering of a bool argument of absl::Substitute
BoolText(flag) == IF flag THEN <<"t","r","u","e">> ELSE <<"f","a","l","s","e">>

\* GetTypeKindValue with the Artifact and Execution branches exchanged
GetTypeKindValueSwapped(R) ==
  CASE R = "Artifact" -> <<"EXECUTION_TYPE">>
    [] R = "Execution" -> <<"ARTIFACT_TYPE">>
    [] R = "Context" -> <<"CONTEXT_TYPE">>

GetTypeKindValue(R) ==
  CASE R = "Artifact" -> <<"ARTIFACT_TYPE">>
    [] R = "Execution" -> <<"EXECUTION_TYPE">>
    [] R = "Context" -> <<"CONTEXT_TYPE">>

\* GetContextJoinTemplate with the two branches exchanged
GetContextJoinTemplateSwapped(R) ==
  CASE R = "Artifact" -> kContextJoinTableViaAssociation
    [] R = "Execution" -> kContextJoinTableViaAttribution
    [] R = "Context" -> kEmptyTemplate

GetContextJoinTemplate(R) ==
  CASE R = "Artifact" -> kContextJoinTableViaAttribution
    [] R = "Execution" -> kContextJoinTableViaAssociation
    [] R = "Context" -> kEmptyTemplate

GetEventJoinTemplate(R) ==
  CASE R = "Artifact" -> kArtifactEventJoinTable
    [] R = "Execution" -> kExecutionEventJoinTable
    [] R = "Context" -> kEmptyTemplate

GetPropertyJoinTableImpl(R, base_alias, property_alias, property_name, is_custom_property) ==
  CASE R = "Artifact" ->
         Substitute(kArtifactPropertyJoinTable,
                    <<base_alias, property_alias, property_name,
                      BoolText(is_custom_property)>>)
    [] R = "Execution" ->
         Substitute(kExecutionPropertyJoinTable,
                    <<base_alias, property_alias, property_name,
                      BoolText(is_custom_property)>>)
    [] R = "Context" ->
         Substitute(kContextPropertyJoinTable,
                    <<base_alias, property_alias, property_name,
                      BoolText(is_custom_property)>>)

GetBaseNodeTable(R, base_alias) ==
  Substitute(BaseNodeTemplate(R), <<base_alias>>)

GetTypeJoinTable(R, base_alias, type_alias) ==
  Substitute(kTypeJoinTable, <<base_alias, type_alias, GetTypeKindValue(R)>>)

GetContextJoinTable(R, base_alias, context_alias) ==
  Substitute(GetContextJoinTemplate(R), <<base_alias, context_alias>>)

\* GetParentContextJoinTable substituting into the child-context template
GetParentContextJoinTableAsChild(R, base_alias, parent_context_alias) ==
  Substitute(kChildContextJoinTableViaParentContext,
             <<base_alias, parent_context_alias>>)

GetParentContextJoinTable(R, base_alias, parent_context_alias) ==
  Substitute(kParentContextJoinTableViaParentContext,
             <<base_alias, parent_context_alias>>)

GetChildContextJoinTable(R, base_alias, child_context_alias) ==
  Substitute(kChildContextJoinTableViaParentContext,
             <<base_alias, child_context_alias>>)

GetPropertyJoinTable(R, base_alias, property_alias, property_name) ==
  GetPropertyJoinTableImpl(R, base_alias, property_alias, property_name, FALSE)

GetCustomPropertyJoinTable(R, base_alias, property_alias, property_name) ==
  GetPropertyJoinTableImpl(R, base_alias, property_alias, property_name, TRUE)

GetEventJoinTable(R, base_alias, event_alias) ==
  Substitute(GetEventJoinTemplate(R), <<base_alias, event_alias>>)

\* ------------------------------------------------------------------ state
\* the two builder objects; Spec drives the first, SpecPair both
Builders == {1, 2}

VARIABLES
  T,                \* the record kind the builders are instantiated for
  mentioned_alias_, \* per builder: atom type -> (concept name -> alias), the
                    \* inner map kept as its entries in insertion order
  alias_index_,     \* per builder: the alias counter
  visits,           \* per builder: the column references translated so far,
                    \* each with the status returned and the text pushed
  from_result,      \* per builder: the text returned by GetFromClause, kept
                    \* until the builder translates another reference
  where_result      \* per builder: the text returned by GetWhereClause, kept
                    \* until the builder translates another reference

vars == <<T, mentioned_alias_, alias_index_, visits, from_result, where_result>>

\* no GetFromClause result is held
NoResult == << >>

Entry(key, alias) == [key |-> key, alias |-> alias]

\* inner_map.contains(key)
Contains(inner, key) == \E i \in 1..Len(inner) : inner[i].key = key

\* the value inner_map[key] reads: the bound alias, or the empty text that
\* operator[] inserts for an absent key
Index(inner, key) ==
  IF Contains(inner, key)
  THEN inner[CHOOSE i \in 1..Len(inner) : inner[i].key = key].alias
  ELSE << >>

\* the map mentioned_alias_[atom_type] refers to: operator[] of the outer map
\* gives an empty inner map for an absent atom type
Inner(outer, atom_type) ==
  IF atom_type \in DOMAIN outer THEN outer[atom_type] ELSE << >>

\* the outer map after mentioned_alias_[atom_type] = inner
WithInner(outer, atom_type, inner) ==
  [a \in DOMAIN outer \cup {atom_type} |->
     IF a = atom_type THEN inner ELSE outer[a]]

\* the characters of identifiers in the order of their codes
CharOrder ==
  << "0","1","2","3","4","5","6","7","8","9","_",
     "a","b","c","d","e","f","g","h","i","j","k","l","m",
     "n","o","p","q","r","s","t","u","v","w","x","y","z" >>

CharRank(c) == CHOOSE i \in DOMAIN CharOrder : CharOrder[i] = c

RECURSIVE TextLess(_, _)
\* std::string operator< : lexicographic comparison
TextLess(a, b) ==
  IF b = << >> THEN FALSE
  ELSE IF a = << >> THEN TRUE
  ELSE IF Head(a) # Head(b) THEN CharRank(Head(a)) < CharRank(Head(b))
  ELSE TextLess(Tail(a), Tail(b))

\* the entries of an inner map visited in ascending order of their keys
IterationOrderByKey(inner) ==
  [i \in 1..Len(inner) |->
     inner[CHOOSE j \in 1..Len(inner) :
             Cardinality({ k \in 1..Len(inner) :
                             TextLess(inner[k].key, inner[j].key) }) = i - 1]]

\* the entries of an inner map in the order a range-for visits them
IterationOrder(inner) == inner

\* ++alias_index_ on a counter that all builders share
NextAliasIndexShared(b) ==
  (CHOOSE n \in { alias_index_[c] : c \in Builders } :
     \A c \in Builders : alias_index_[c] <= n) + 1

\* ++alias_index_
NextAliasIndex(b) == alias_index_[b] + 1

\* GetTableAlias advancing the counter on every call, bound or not
GetTableAliasCountingLookups(b, atom_type, concept_name) ==
  LET inner == Inner(mentioned_alias_[b], atom_type)
      fresh == ~Contains(inner, concept_name)
      index == NextAliasIndex(b)
      bound == IF fresh
               THEN Append(inner,
                           Entry(concept_name,
                                 StrCat(kTableAliasPrefix, Itoa(index))))
               ELSE inner
  IN [ mentioned |-> WithInner(mentioned_alias_[b], atom_type, bound),
       index |-> index,
       text |-> ToIdentifierLiteral(Index(bound, concept_name)) ]

\* GetTableAlias(atom_type, concept_name) of builder b: the registry and
\* counter it leaves and the text it returns
GetTableAlias(b, atom_type, concept_name) ==
  LET inner == Inner(mentioned_alias_[b], atom_type)
      fresh == ~Contains(inner, concept_name)
      index == IF fresh THEN NextAliasIndex(b) ELSE alias_index_[b]
      bound == IF fresh
               THEN Append(inner,
                           Entry(concept_name,
                                 StrCat(kTableAliasPrefix, Itoa(index))))
               ELSE inner
  IN [ mentioned |-> WithInner(mentioned_alias_[b], atom_type, bound),
       index |-> index,
       text |-> ToIdentifierLiteral(Index(bound, concept_name)) ]

\* the constructor
Init ==
  /\ T \in RecordKind
  /\ mentioned_alias_ =
       [b \in Builders |->
          [a \in {"ATTRIBUTE"} |-> <<Entry(kBaseTableRef, kBaseTableAlias)>>]]
  /\ alias_index_ = [b \in Builders |-> kInitialAliasIndex]
  /\ visits = [b \in Builders |-> << >>]
  /\ from_result = [b \in Builders |-> NoResult]
  /\ where_result = [b \in Builders |-> NoResult]

\* --------------------------------------------------- column references
Node(name, is_struct) == [name |-> name, is_struct |-> is_struct]

accuracy == <<"a","c","c","u","r","a","c","y">>
owner == <<"o","w","n","e","r">>
PropertyNames == {accuracy, owner}

StructNodes ==
  { Node(kPropertyPrefix \o p, TRUE) : p \in PropertyNames }
  \cup { Node(kCustomPropertyPrefix \o p, TRUE) : p \in PropertyNames }
  \cup { Node(kContextsPrefix \o <<"p","i","p","e","l","i","n","e">>, TRUE),
         Node(kParentContextsPrefix \o <<"c">>, TRUE),
         Node(kChildContextsPrefix \o <<"c">>, TRUE),
         Node(kEventsPrefix \o <<"e">>, TRUE),
         Node(<<"a","r","t","i","f","a","c","t","s","_","x">>, TRUE) }

AttributeNodes ==
  { Node(<<"u","r","i">>, FALSE), Node(<<"n","a","m","e">>, FALSE),
    Node(kTypeTableRef, FALSE) }

Nodes == StructNodes \cup AttributeNodes

\* the references the two builders of SpecPair translate
PairNodes ==
  { Node(kPropertyPrefix \o accuracy, TRUE),
    Node(kContextsPrefix \o <<"p","i","p","e","l","i","n","e">>, TRUE),
    Node(kTypeTableRef, FALSE) }

\* the chain of StartsWith tests with its last branch allocating an alias
\* instead of returning the error
NeighborAtomTypeFallThrough(neighbor_name) ==
  IF StartsWith(neighbor_name, kContextsPrefix) THEN "CONTEXT"
  ELSE IF StartsWith(neighbor_name, kPropertyPrefix) THEN "PROPERTY"
  ELSE IF StartsWith(neighbor_name, kCustomPropertyPrefix)
       THEN "CUSTOM_PROPERTY"
  ELSE IF StartsWith(neighbor_name, kParentContextsPrefix)
       THEN "PARENT_CONTEXT"
  ELSE IF StartsWith(neighbor_name, kChildContextsPrefix)
       THEN "CHILD_CONTEXT"
  ELSE "EVENT"

\* the atom type the chain of StartsWith tests selects for a struct
\* reference, "NONE" when no prefix matches
NeighborAtomType(neighbor_name) ==
  IF StartsWith(neighbor_name, kContextsPrefix) THEN "CONTEXT"
  ELSE IF StartsWith(neighbor_name, kPropertyPrefix) THEN "PROPERTY"
  ELSE IF StartsWith(neighbor_name, kCustomPropertyPrefix)
       THEN "CUSTOM_PROPERTY"
  ELSE IF StartsWith(neighbor_name, kParentContextsPrefix)
       THEN "PARENT_CONTEXT"
  ELSE IF StartsWith(neighbor_name, kChildContextsPrefix)
       THEN "CHILD_CONTEXT"
  ELSE IF StartsWith(neighbor_name, kEventsPrefix) THEN "EVENT"
  ELSE "NONE"

\* every attribute looked up under its own name
AttributeTableRefByName(name) == name

\* the concept an attribute (non-struct) reference is looked up under
AttributeTableRef(name) ==
  IF name # kTypeTableRef THEN kBaseTableRef ELSE kTypeTableRef

\* the column an attribute reference is rendered with
AttributeColumn(name) ==
  IF name # kTypeTableRef
  THEN ToIdentifierLiteral(name)
  ELSE ToIdentifierLiteral(kTypeTableRef)

Visited(node, status, sql) ==
  [name |-> node.name, is_struct |-> node.is_struct,
   status |-> status, sql |-> sql]

VisitResolvedExpressionColumn(b, node) ==
  /\ IF node.is_struct
     THEN IF NeighborAtomType(node.name) = "NONE"
          THEN /\ visits' = [visits EXCEPT ![b] =
                   Append(@, Visited(node, "UNIMPLEMENTED", << >>))]
               /\ UNCHANGED <<mentioned_alias_, alias_index_>>
          ELSE LET r == GetTableAlias(b, NeighborAtomType(node.name),
                                      node.name)
               IN /\ mentioned_alias_' =
                       [mentioned_alias_ EXCEPT ![b] = r.mentioned]
                  /\ alias_index_' = [alias_index_ EXCEPT ![b] = r.index]
                  /\ visits' = [visits EXCEPT ![b] =
                       Append(@, Visited(node, "OK", r.text))]
     ELSE LET r == GetTableAlias(b, "ATTRIBUTE", AttributeTableRef(node.name))
          IN /\ mentioned_alias_' =
                  [mentioned_alias_ EXCEPT ![b] = r.mentioned]
             /\ alias_index_' = [alias_index_ EXCEPT ![b] = r.index]
             /\ visits' = [visits EXCEPT ![b] =
                  Append(@, Visited(node, "OK",
                                    StrCat(StrCat(r.text, <<".">>),
                                           AttributeColumn(node.name))))]
  /\ from_result' = [from_result EXCEPT ![b] = NoResult]
  /\ where_result' = [where_result EXCEPT ![b] = NoResult]
  /\ UNCHANGED T

\* ------------------------------------------------------------ FROM clause
RECURSIVE AppendAll(_, _)
\* absl::StrAppend of each piece in turn
AppendAll(result, pieces) ==
  IF pieces = << >> THEN result
  ELSE AppendAll(StrAppend(result, Head(pieces)), Tail(pieces))

\* the alias of the base table GetFromClause reads
BaseAliasOf(outer) == Index(Inner(outer, "ATTRIBUTE"), kBaseTableRef)

TypeJoins(R, outer) ==
  IF Contains(Inner(outer, "ATTRIBUTE"), kTypeTableRef)
  THEN <<GetTypeJoinTable(R, BaseAliasOf(outer),
                          Index(Inner(outer, "ATTRIBUTE"), kTypeTableRef))>>
  ELSE << >>

ContextJoins(R, outer) ==
  LET mentioned == IterationOrder(Inner(outer, "CONTEXT"))
  IN [i \in 1..Len(mentioned) |->
        GetContextJoinTable(R, BaseAliasOf(outer), mentioned[i].alias)]

\* the property's name starts after the prefix 'properties_'
PropertyNameOf(key) == Substr(key, Len(kPropertyPrefix))

\* the custom property's name cut after the length of 'properties_'
CustomPropertyNameOfShortPrefix(key) == Substr(key, Len(kPropertyPrefix))

\* the property's name starts after the prefix 'custom_properties_'
CustomPropertyNameOf(key) == Substr(key, Len(kCustomPropertyPrefix))

PropertyJoins(R, outer) ==
  LET mentioned == IterationOrder(Inner(outer, "PROPERTY"))
  IN [i \in 1..Len(mentioned) |->
        GetPropertyJoinTable(R, BaseAliasOf(outer), mentioned[i].alias,
                             PropertyNameOf(mentioned[i].key))]

CustomPropertyJoins(R, outer) ==
  LET mentioned == IterationOrder(Inner(outer, "CUSTOM_PROPERTY"))
  IN [i \in 1..Len(mentioned) |->
        GetCustomPropertyJoinTable(R, BaseAliasOf(outer), mentioned[i].alias,
                                   CustomPropertyNameOf(mentioned[i].key))]

ParentContextJoins(R, outer) ==
  LET mentioned == IterationOrder(Inner(outer, "PARENT_CONTEXT"))
  IN [i \in 1..Len(mentioned) |->
        GetParentContextJoinTable(R, BaseAliasOf(outer), mentioned[i].alias)]

ChildContextJoins(R, outer) ==
  LET mentioned == IterationOrder(Inner(outer, "CHILD_CONTEXT"))
  IN [i \in 1..Len(mentioned) |->
        GetChildContextJoinTable(R, BaseAliasOf(outer), mentioned[i].alias)]

EventJoins(R, outer) ==
  LET mentioned == IterationOrder(Inner(outer, "EVENT"))
  IN [i \in 1..Len(mentioned) |->
        GetEventJoinTable(R, BaseAliasOf(outer), mentioned[i].alias)]

\* GetFromClause with the property loop placed before the context loop
FromClausePropertiesFirst(R, outer) ==
  AppendAll(<<GetBaseNodeTable(R, BaseAliasOf(outer))>>,
            TypeJoins(R, outer) \o PropertyJoins(R, outer)
              \o ContextJoins(R, outer) \o CustomPropertyJoins(R, outer)
              \o ParentContextJoins(R, outer) \o ChildContextJoins(R, outer)
              \o EventJoins(R, outer))

\* the text GetFromClause builds from the registry 'outer'
FromClause(R, outer) ==
  AppendAll(<<GetBaseNodeTable(R, BaseAliasOf(outer))>>,
            TypeJoins(R, outer) \o ContextJoins(R, outer)
              \o PropertyJoins(R, outer) \o CustomPropertyJoins(R, outer)
              \o ParentContextJoins(R, outer) \o ChildContextJoins(R, outer)
              \o EventJoins(R, outer))

\* GetFromClause reading the type alias with operator[] without the contains
\* test, which binds the type concept to the empty text
TouchedBindingType(outer) ==
  [a \in AtomType |->
     IF a = "ATTRIBUTE" /\ ~Contains(Inner(outer, a), kTypeTableRef)
     THEN Append(Inner(outer, a), Entry(kTypeTableRef, << >>))
     ELSE Inner(outer, a)]

\* the outer map after GetFromClause: operator[] has inserted an empty inner
\* map for every atom type that had none
Touched(outer) == [a \in AtomType |-> Inner(outer, a)]

GetFromClause(b) ==
  /\ from_result' = [from_result EXCEPT ![b] = FromClause(T, mentioned_alias_[b])]
  /\ mentioned_alias_' = [mentioned_alias_ EXCEPT ![b] = Touched(@)]
  /\ UNCHANGED <<T, alias_index_, visits, where_result>>

\* sql() of the SQL builder: the text built from the fragments pushed for the
\* translated references, here the pushed fragments in their order
SqlOf(b) ==
  LET ok == SelectSeq(visits[b], LAMBDA v : v.status = "OK")
  IN [i \in 1..Len(ok) |-> ok[i].sql]

GetWhereClause(b) ==
  /\ where_result' = [where_result EXCEPT ![b] = <<SqlOf(b)>>]
  /\ UNCHANGED <<T, mentioned_alias_, alias_index_, visits, from_result>>

\* --------------------------------------------------------- specifications
\* one builder translating up to MaxRefs references
Next ==
  \/ \E node \in Nodes :
       /\ Len(visits[1]) < MaxRefs
       /\ VisitResolvedExpressionColumn(1, node)
  \/ GetFromClause(1)
  \/ GetWhereClause(1)

Spec == Init /\ [][Next]_vars

\* two builders of the same record kind, interleaved in any order
NextPair ==
  \/ \E b \in Builders, node \in PairNodes :
       /\ Len(visits[b]) < MaxPairRefs
       /\ VisitResolvedExpressionColumn(b, node)
  \/ \E b \in Builders : GetFromClause(b)
  \/ \E b \in Builders : GetWhereClause(b)

SpecPair == Init /\ [][NextPair]_vars

\* ------------------------------------------- vocabulary of the properties
\* the recognised prefixes and the relationship each denotes
Prefixes ==
  { <<kContextsPrefix, "CONTEXT">>, <<kPropertyPrefix, "PROPERTY">>,
    <<kCustomPropertyPrefix, "CUSTOM_PROPERTY">>,
    <<kParentContextsPrefix, "PARENT_CONTEXT">>,
    <<kChildContextsPrefix, "CHILD_CONTEXT">>, <<kEventsPrefix, "EVENT">> }

HasRecognizedPrefix(name) == \E p \in Prefixes : StartsWith(name, p[1])

\* the neighbour concept a translated reference denotes: relationship and key
\* (the type join has the one key "type")
ConceptOf(v) ==
  IF v.is_struct
  THEN <<(CHOOSE p \in Prefixes : StartsWith(v.name, p[1]))[2], v.name>>
  ELSE <<"TYPE", kTypeTableRef>>

\* the translated references of builder b that denote a neighbour concept
NeighborVisits(b) ==
  { i \in DOMAIN visits[b] :
      /\ visits[b][i].status = "OK"
      /\ \/ visits[b][i].is_struct /\ HasRecognizedPrefix(visits[b][i].name)
         \/ ~visits[b][i].is_struct /\ visits[b][i].name = kTypeTableRef }

ConceptsOf(b) == { ConceptOf(visits[b][i]) : i \in NeighborVisits(b) }

\* the alias a rendered reference starts with: the text before the first "."
AliasPart(text) ==
  LET dots == { i \in 1..Len(text) : text[i] = "." }
  IN IF dots = {} THEN text
     ELSE SubSeq(text, 1, (CHOOSE i \in dots : \A j \in dots : i <= j) - 1)

AliasOfVisit(b, i) == AliasPart(visits[b][i].sql)

FromHeld(b) == from_result[b] # NoResult

\* the positions of the join fragments of the held FROM clause
JoinPositions(b) == { k \in DOMAIN from_result[b] : Len(from_result[b][k].args) >= 2 }

\* the positions of the join fragments that carry the alias
JoinsWithAlias(b, alias) ==
  { k \in JoinPositions(b) : from_result[b][k].args[2] = alias }

\* the relationship is not defined for the record kind
InvalidFor(R, kind) ==
  \/ R = "Context" /\ kind \in {"CONTEXT", "EVENT"}
  \/ R \in {"Artifact", "Execution"} /\ kind \in {"PARENT_CONTEXT", "CHILD_CONTEXT"}

\* ------------------------------------------------------------------ claims

\* C1: references to the same neighbour concept (same relationship, same key)
\* are all rendered with the same alias, and the FROM clause returned by
\* GetFromClause has exactly one join fragment carrying that alias.
C1_OneJoinPerConcept ==
  \A i \in NeighborVisits(1) :
    /\ \A j \in NeighborVisits(1) :
         ConceptOf(visits[1][i]) = ConceptOf(visits[1][j])
           => AliasOfVisit(1, i) = AliasOfVisit(1, j)
    /\ FromHeld(1) => Cardinality(JoinsWithAlias(1, AliasOfVisit(1, i))) = 1

\* C2: with K distinct concepts mentioned, GetFromClause emits exactly K+1
\* fragments, and the K+1 aliases (the base alias included) are pairwise
\* distinct.
C2_KPlusOneFragments ==
  LET K == Cardinality(ConceptsOf(1))
      aliases == {kBaseTableAlias}
                   \cup { AliasOfVisit(1, i) : i \in NeighborVisits(1) }
  IN /\ Cardinality(aliases) = K + 1
     /\ FromHeld(1) => Len(from_result[1]) = K + 1

\* C4: a reference to a relationship the record kind does not support makes
\* the translation fail, and no join text is produced for it.
C4_InvalidRelationshipFails ==
  \A i \in DOMAIN visits[1] :
    LET v == visits[1][i]
    IN (v.is_struct /\ HasRecognizedPrefix(v.name)
          /\ InvalidFor(T, ConceptOf(v)[1]))
         => /\ v.status # "OK"
            /\ FromHeld(1) => JoinsWithAlias(1, AliasPart(v.sql)) = {}

\* the column references builder b was given, without their results
RefsOf(b) ==
  [i \in DOMAIN visits[b] |-> Node(visits[b][i].name, visits[b][i].is_struct)]

C5_UnsupportedPrefixFails ==
  [][ \A b \in Builders :
        Len(visits'[b]) = Len(visits[b]) + 1
          => LET v == visits'[b][Len(visits'[b])]
             IN (v.is_struct /\ ~HasRecognizedPrefix(v.name))
                  => /\ v.status = "UNIMPLEMENTED"
                     /\ v.sql = << >>
                     /\ mentioned_alias_'[b] = mentioned_alias_[b]
                     /\ alias_index_'[b] = alias_index_[b] ]_vars

C5_Witness ==
  /\ Len(visits[1]) >= 2
  /\ visits[1][Len(visits[1])].is_struct
  /\ ~HasRecognizedPrefix(visits[1][Len(visits[1])].name)
  /\ visits[1][Len(visits[1])].status = "UNIMPLEMENTED"
  /\ alias_index_[1] >= 1

PropertyTemplates ==
  {kArtifactPropertyJoinTable, kExecutionPropertyJoinTable,
   kContextPropertyJoinTable}

\* the positions of the property joins of the held FROM clause
PropertyJoinPositions(b) ==
  { k \in JoinPositions(b) : from_result[b][k].format \in PropertyTemplates }

\* the property joins that filter on name = p and is_custom_property = flag
PropertyJoinsFor(b, p, flag) ==
  { k \in PropertyJoinPositions(b) :
      /\ from_result[b][k].args[3] = p
      /\ from_result[b][k].args[4] = flag }

\* the translated references named prefix + p
VisitsNamed(b, name) ==
  { i \in DOMAIN visits[b] : visits[b][i].is_struct /\ visits[b][i].name = name }

\* C6: a reference properties_p yields exactly one join filtering on name = p
\* with the custom flag false, custom_properties_p exactly one filtering on
\* name = p with the flag true; each carries the alias the reference was
\* rendered with, different names or flags give separate joins with distinct
\* aliases, and there is no other property join.
C6_PropertyJoins ==
  FromHeld(1) =>
    /\ \A p \in PropertyNames :
         /\ \A i \in VisitsNamed(1, kPropertyPrefix \o p) :
              /\ Cardinality(PropertyJoinsFor(1, p, <<"f","a","l","s","e">>)) = 1
              /\ PropertyJoinsFor(1, p, <<"f","a","l","s","e">>)
                   = JoinsWithAlias(1, AliasOfVisit(1, i))
         /\ \A i \in VisitsNamed(1, kCustomPropertyPrefix \o p) :
              /\ Cardinality(PropertyJoinsFor(1, p, <<"t","r","u","e">>)) = 1
              /\ PropertyJoinsFor(1, p, <<"t","r","u","e">>)
                   = JoinsWithAlias(1, AliasOfVisit(1, i))
    /\ Cardinality(PropertyJoinPositions(1)) =
         Cardinality({ c \in ConceptsOf(1) :
                         c[1] \in {"PROPERTY", "CUSTOM_PROPERTY"} })
    /\ \A k1 \in PropertyJoinPositions(1), k2 \in PropertyJoinPositions(1) :
         k1 # k2 => from_result[1][k1].args[2] # from_result[1][k2].args[2]

C6_Witness ==
  /\ FromHeld(1)
  /\ RefsOf(1) = << Node(kPropertyPrefix \o accuracy, TRUE),
                    Node(kCustomPropertyPrefix \o owner, TRUE) >>
  /\ Len(from_result[1]) = 3

\* the translated references are all direct attributes of the base record
OnlyDirectAttributes(b) ==
  \A i \in DOMAIN visits[b] :
    ~visits[b][i].is_struct /\ visits[b][i].name # kTypeTableRef

\* C7: the FROM clause starts with the base table under the base alias and
\* names the base table nowhere else, also when nothing was referenced; when
\* only direct attributes were referenced it has no join, the alias counter
\* is at its initial value and every attribute is rendered as
\* <base alias>.<attribute name>.
C7_BaseTableOnly ==
  /\ FromHeld(1) =>
       /\ from_result[1][1].format.name = "BaseNodeTable"
       /\ from_result[1][1].format.from = T
       /\ from_result[1][1].args = <<kBaseTableAlias>>
       /\ \A k \in DOMAIN from_result[1] :
            k # 1 => from_result[1][k].format.name # "BaseNodeTable"
  /\ OnlyDirectAttributes(1) =>
       /\ alias_index_[1] = kInitialAliasIndex
       /\ \A i \in DOMAIN visits[1] :
            /\ visits[1][i].status = "OK"
            /\ visits[1][i].sql = kBaseTableAlias \o <<".">> \o visits[1][i].name
       /\ FromHeld(1) => Len(from_result[1]) = 1

C7_Witness ==
  /\ FromHeld(1)
  /\ Len(visits[1]) >= 2
  /\ OnlyDirectAttributes(1)

\* the translated references of builder b that denote the relationship
VisitsOfKind(b, kind) ==
  { i \in NeighborVisits(b) : ConceptOf(visits[b][i])[1] = kind }

\* C8: for Execution a contexts_ reference is joined through Association on
\* execution_id and no fragment goes through Attribution; for Artifact it is
\* joined through Attribution on artifact_id and none goes through
\* Association.
C8_ContextJoinByKind ==
  FromHeld(1) =>
    /\ T = "Execution" =>
         /\ \A k \in DOMAIN from_result[1] :
              from_result[1][k].format.via # "Attribution"
         /\ \A i \in VisitsOfKind(1, "CONTEXT") :
              \E k \in JoinsWithAlias(1, AliasOfVisit(1, i)) :
                /\ from_result[1][k].format.via = "Association"
                /\ from_result[1][k].format.on_right = "execution_id"
    /\ T = "Artifact" =>
         /\ \A k \in DOMAIN from_result[1] :
              from_result[1][k].format.via # "Association"
         /\ \A i \in VisitsOfKind(1, "CONTEXT") :
              \E k \in JoinsWithAlias(1, AliasOfVisit(1, i)) :
                /\ from_result[1][k].format.via = "Attribution"
                /\ from_result[1][k].format.on_right = "artifact_id"

C8_Witness ==
  /\ T = "Execution"
  /\ FromHeld(1)
  /\ VisitsOfKind(1, "CONTEXT") # {}

\* C9: for Context a parent_contexts_ reference is joined through
\* ParentContext with the neighbour on parent_context_id and the base row on
\* context_id, a child_contexts_ reference the other way round, each exactly
\* once, and the two never share an alias.
C9_ParentChildOrientation ==
  (T = "Context" /\ FromHeld(1)) =>
    /\ \A i \in VisitsOfKind(1, "PARENT_CONTEXT") :
         /\ Cardinality(JoinsWithAlias(1, AliasOfVisit(1, i))) = 1
         /\ \A k \in JoinsWithAlias(1, AliasOfVisit(1, i)) :
              /\ from_result[1][k].format.via = "ParentContext"
              /\ from_result[1][k].format.via_on = "ParentContext.parent_context_id"
              /\ from_result[1][k].format.base_col = "ParentContext.context_id"
    /\ \A i \in VisitsOfKind(1, "CHILD_CONTEXT") :
         /\ Cardinality(JoinsWithAlias(1, AliasOfVisit(1, i))) = 1
         /\ \A k \in JoinsWithAlias(1, AliasOfVisit(1, i)) :
              /\ from_result[1][k].format.via = "ParentContext"
              /\ from_result[1][k].format.via_on = "ParentContext.context_id"
              /\ from_result[1][k].format.base_col = "ParentContext.parent_context_id"
    /\ \A i \in VisitsOfKind(1, "PARENT_CONTEXT"),
          j \in VisitsOfKind(1, "CHILD_CONTEXT") :
         AliasOfVisit(1, i) # AliasOfVisit(1, j)

C9_Witness ==
  /\ T = "Context"
  /\ FromHeld(1)
  /\ VisitsOfKind(1, "PARENT_CONTEXT") # {}
  /\ VisitsOfKind(1, "CHILD_CONTEXT") # {}
  /\ Len(from_result[1]) = 3

\* the place of a fragment's category in the fixed order
CategoryRank(piece) ==
  CASE piece.format.name = "BaseNodeTable" -> 0
    [] piece.format = kTypeJoinTable -> 1
    [] piece.format \in {kContextJoinTableViaAttribution,
                         kContextJoinTableViaAssociation} -> 2
    [] piece.format \in PropertyTemplates ->
         IF piece.args[4] = <<"t","r","u","e">> THEN 4 ELSE 3
    [] piece.format = kParentContextJoinTableViaParentContext -> 5
    [] piece.format = kChildContextJoinTableViaParentContext -> 6
    [] piece.format \in {kArtifactEventJoinTable, kExecutionEventJoinTable} -> 7

\* C10: the fragments of the FROM clause are in the category order base,
\* type, context, property, custom property, parent context, child context,
\* event, whatever the order in which the concepts were first referenced.
C10_CategoryOrder ==
  FromHeld(1) =>
    \A k1 \in DOMAIN from_result[1], k2 \in DOMAIN from_result[1] :
      k1 < k2 => CategoryRank(from_result[1][k1]) <= CategoryRank(from_result[1][k2])

C10_Witness ==
  /\ T = "Artifact"
  /\ FromHeld(1)
  /\ RefsOf(1) = << Node(kEventsPrefix \o <<"e">>, TRUE),
                    Node(kPropertyPrefix \o owner, TRUE),
                    Node(kTypeTableRef, FALSE) >>
  /\ Len(from_result[1]) = 4

\* the number n of the alias table_n
AliasNumber(alias) ==
  CHOOSE n \in 0..(alias_index_[1] + 1) : alias = kTableAliasPrefix \o Itoa(n)

\* the first translated reference that was rendered with the alias
FirstVisitWith(b, alias) ==
  CHOOSE i \in NeighborVisits(b) :
    /\ AliasOfVisit(b, i) = alias
    /\ \A j \in NeighborVisits(b) : AliasOfVisit(b, j) = alias => i <= j

\* C11: within one category of the FROM clause the joins stand in the order
\* in which their concepts were first referenced, so a join with a
\* lower-numbered alias precedes one with a higher-numbered alias.
C11_InsertionOrderWithinCategory ==
  FromHeld(1) =>
    \A k1 \in JoinPositions(1), k2 \in JoinPositions(1) :
      (/\ k1 < k2
       /\ CategoryRank(from_result[1][k1]) = CategoryRank(from_result[1][k2]))
        => /\ FirstVisitWith(1, from_result[1][k1].args[2])
                < FirstVisitWith(1, from_result[1][k2].args[2])
           /\ AliasNumber(from_result[1][k1].args[2])
                < AliasNumber(from_result[1][k2].args[2])

C11_Witness ==
  /\ FromHeld(1)
  /\ RefsOf(1) = << Node(kPropertyPrefix \o owner, TRUE),
                    Node(kPropertyPrefix \o accuracy, TRUE) >>
  /\ Len(from_result[1]) = 3
  /\ from_result[1][2].args[3] = owner
  /\ from_result[1][3].args[3] = accuracy

\* the atom type and key a neighbour concept is bound under
AtomOf(concept) == IF concept[1] = "TYPE" THEN "ATTRIBUTE" ELSE concept[1]

\* the translated references of builder b that are the first to denote their
\* concept, given the concept of every neighbour reference
FirstReferences(b, concepts) ==
  { i \in DOMAIN concepts :
      \A g \in DOMAIN concepts : g < i => concepts[g] # concepts[i] }

\* the number of bindings the registry of builder b holds, the base one included
BindingCount(b) ==
  Cardinality({ <<a, k>> \in AtomType \X (1..(alias_index_[b] + 1)) :
                  k <= Len(Inner(mentioned_alias_[b], a)) })

\* the counter equals the number of distinct non-base pairs referenced, and
\* the j-th of them in first-reference order is bound to table_j
C12_CounterAndRanks ==
  LET concepts == [i \in NeighborVisits(1) |-> ConceptOf(visits[1][i])]
      firsts == FirstReferences(1, concepts)
  IN /\ alias_index_[1] = Cardinality(firsts)
     /\ BindingCount(1) = Cardinality(firsts) + 1
     /\ \A i \in DOMAIN concepts, f \in firsts :
          concepts[f] = concepts[i]
            => LET j == Cardinality({ g \in firsts : g <= f })
               IN /\ AliasOfVisit(1, i) = kTableAliasPrefix \o Itoa(j)
                  /\ Index(Inner(mentioned_alias_[1], AtomOf(concepts[i])),
                           visits[1][i].name)
                       = kTableAliasPrefix \o Itoa(j)

\* translating a reference whose pair is already bound returns the alias
\* bound before and changes neither a binding nor the counter
C12_LookupKeepsRegistry ==
  \A b \in Builders :
    Len(visits'[b]) = Len(visits[b]) + 1
      => LET n == Len(visits'[b])
             v == visits'[b][n]
         IN (\/ ~v.is_struct /\ v.name # kTypeTableRef
             \/ /\ n \in NeighborVisits(b)'
                /\ ConceptOf(v) \in ConceptsOf(b))
              => /\ mentioned_alias_'[b] = mentioned_alias_[b]
                 /\ alias_index_'[b] = alias_index_[b]
                 /\ \A i \in NeighborVisits(b) :
                      (n \in NeighborVisits(b)'
                         /\ ConceptOf(visits[b][i]) = ConceptOf(v))
                        => AliasPart(v.sql) = AliasOfVisit(b, i)

\* C12: after any sequence of translated references the alias counter equals
\* the number of distinct non-base (kind, key) pairs referenced, the j-th
\* distinct pair in first-reference order holds the alias table_j, and a
\* lookup of a bound pair returns its alias and changes neither the bindings
\* nor the counter.
C12_AliasAllocation ==
  /\ []C12_CounterAndRanks
  /\ [][C12_LookupKeepsRegistry]_vars

C12_Witness ==
  /\ Len(visits[1]) = 3
  /\ Cardinality(ConceptsOf(1)) = 2
  /\ ConceptOf(visits[1][1]) = ConceptOf(visits[1][3])
  /\ ConceptOf(visits[1][1]) # ConceptOf(visits[1][2])
  /\ NeighborVisits(1) = {1, 2, 3}
  /\ alias_index_[1] = 2

\* the translated references named `type` that are not structs
TypeVisits(b) ==
  { i \in DOMAIN visits[b] :
      ~visits[b][i].is_struct /\ visits[b][i].name = kTypeTableRef }

\* the positions of the type joins of the held FROM clause
TypeJoinPositions(b) ==
  { k \in DOMAIN from_result[b] : from_result[b][k].format = kTypeJoinTable }

\* the type-kind discriminant of a record kind
TypeKindOf(R) ==
  CASE R = "Artifact" -> "ARTIFACT_TYPE"
    [] R = "Execution" -> "EXECUTION_TYPE"
    [] R = "Context" -> "CONTEXT_TYPE"

\* C13: a non-struct reference named `type` is rendered as <type alias>.type
\* with a counter-allocated alias that is not the base alias; the FROM clause
\* has the type join exactly when `type` was referenced, at most once, and
\* the join filters Type rows by the type kind of the record kind.
C13_TypeJoin ==
  /\ \A i \in TypeVisits(1) :
       /\ visits[1][i].status = "OK"
       /\ \E n \in 1..alias_index_[1] :
            visits[1][i].sql =
              kTableAliasPrefix \o Itoa(n) \o <<".">> \o <<"t","y","p","e">>
       /\ AliasOfVisit(1, i) # kBaseTableAlias
  /\ FromHeld(1) =>
       /\ Cardinality(TypeJoinPositions(1)) = IF TypeVisits(1) # {} THEN 1 ELSE 0
       /\ \A k \in TypeJoinPositions(1) :
            /\ from_result[1][k].format.from = "Type"
            /\ from_result[1][k].format.where = "Type.type_kind = $2"
            /\ from_result[1][k].args[1] = kBaseTableAlias
            /\ from_result[1][k].args[3] = <<TypeKindOf(T)>>
            /\ \A i \in TypeVisits(1) :
                 from_result[1][k].args[2] = AliasOfVisit(1, i)

C13_Witness ==
  /\ FromHeld(1)
  /\ Cardinality(TypeVisits(1)) = 2
  /\ Len(visits[1]) = 3
  /\ ~visits[1][1].is_struct /\ visits[1][1].name # kTypeTableRef
  /\ Cardinality(TypeJoinPositions(1)) = 1

\* a step in which builder b translated nothing leaves each of its bindings
\* and its counter as they were
C14_AssemblyKeepsRegistry ==
  \A b \in Builders :
    visits'[b] = visits[b]
      => /\ \A a \in AtomType :
              Inner(mentioned_alias_'[b], a) = Inner(mentioned_alias_[b], a)
         /\ alias_index_'[b] = alias_index_[b]

\* the alias a newly translated neighbour reference receives is the one of
\* the earlier reference to its concept, or else the next unused table_n,
\* whichever calls were made in between
C14_LaterAliasUnaffected ==
  \A b \in Builders :
    Len(visits'[b]) = Len(visits[b]) + 1
      => LET n == Len(visits'[b])
             v == visits'[b][n]
         IN n \in NeighborVisits(b)'
              => /\ \A i \in NeighborVisits(b) :
                      ConceptOf(visits[b][i]) = ConceptOf(v)
                        => AliasPart(v.sql) = AliasOfVisit(b, i)
                 /\ ConceptOf(v) \notin ConceptsOf(b)
                      => AliasPart(v.sql) =
                           kTableAliasPrefix
                             \o Itoa(Cardinality(ConceptsOf(b)) + 1)

\* the FROM text held is the text another GetFromClause call returns now
C14_RepeatedFromClause ==
  \A b \in Builders :
    FromHeld(b) => from_result[b] = FromClause(T, mentioned_alias_[b])

\* C14: GetFromClause and GetWhereClause leave every (kind, key) -> alias
\* binding and the alias counter unchanged, a second GetFromClause call
\* returns the same text, and a GetFromClause call between two translated
\* references does not change the alias a later reference receives.
C14_AssemblyReadOnly ==
  /\ [][C14_AssemblyKeepsRegistry /\ C14_LaterAliasUnaffected]_vars
  /\ []C14_RepeatedFromClause

\* a reference that allocated table_2 after GetFromClause and GetWhereClause
\* had run on the registry holding table_1, followed by another GetFromClause
C14_Witness ==
  /\ Len(visits[1]) = 2
  /\ NeighborVisits(1) = {1, 2}
  /\ alias_index_[1] = 2
  /\ DOMAIN mentioned_alias_[1] = AtomType
  /\ Inner(mentioned_alias_[1], "ATTRIBUTE") =
       <<Entry(kBaseTableRef, kBaseTableAlias)>>
  /\ FromHeld(1)
  /\ Len(from_result[1]) = 3
  /\ where_result[1] # NoResult

====
